---- MODULE Spec2Model ----
(***************************************************************************)
(* Sampling primitives and evaluation-data selection of mixturs.           *)
(*                                                                         *)
(*   reservoir_sampling, reservoir_sampling_weighted and                   *)
(*   replacement_sampling_weighted   (src/mixturs/src/utils/sampling.rs)   *)
(*   EvalData::from_sample           (src/mixturs/src/callback.rs)         *)
(*                                                                         *)
(* Every loop of the source is unrolled one iteration per step, so that    *)
(* the intermediate contents of the destination slice are states.  Real    *)
(* weights are modelled by integers: a draw from the half-open real range  *)
(* [0, w_sum) is a draw from 0..w_sum-1, which keeps exactly the outcomes  *)
(* "j < w" and "j >= w" that the real draw can produce.  A panic of the    *)
(* Rust code is the control state "panic" with the reason in err.          *)
(***************************************************************************)
EXTENDS Integers, Sequences, FiniteSets, TLC

\* ---------------------------------------------------------------- bounds
MaxLen == 4        \* longest source (items or weights)
MaxK == 2          \* longest destination slice
MaxItem == 2       \* source items of reservoir_sampling are 1..MaxItem
MaxW == 2          \* largest weight
MaxCols == 4       \* most columns of a point set
MaxPoints == 3     \* largest max_points
MaxCalls == 2      \* from_sample calls compared with each other
MaxElsewhere == 1  \* draws made elsewhere between two from_sample calls
MaxMetrics == 2    \* most metrics registered on a MonitoringCallback
MaxChildren == 2   \* most child callbacks registered
MaxIter == 1       \* iteration indices passed to the hooks are 0..MaxIter
MaxClusters == 1   \* params.n_clusters() is 1..MaxClusters
MaxLines == 2      \* lines a MonitoringCallback prints
MaxTime == 2       \* latest reading of the clock
MaxLog == 3        \* hook calls made by the recording driver

\* --------------------------------------------------------------- helpers
SeqsUpTo(S, len) == UNION {[1..l -> S] : l \in 0..len}

RECURSIVE SeqSum(_)
SeqSum(s) == IF Len(s) = 0 THEN 0 ELSE s[1] + SeqSum(Tail(s))

\* vec![0; k]: a freshly allocated destination
Zeros(k) == [p \in 1..k |-> 0]

\* a destination reused from an earlier call: every slot holds a value that
\* no call of this model writes
Stale(k) == [p \in 1..k |-> MaxLen + MaxCols + MaxItem + p]

DstInits(k) == {Zeros(k), Stale(k)}

\* no slot written yet
NoOrigin(k) == [p \in 1..k |-> -1]

VARIABLES
    caller,     \* "none" | "from_sample": who called the running sampler
    fn,         \* the sampler that is running, "none" when idle
    pc,         \* "idle" | "fill" | "loop" | "done" | "panic"
    err,        \* reason of a panic, "none" otherwise
    src,        \* the source iterator's items (items, or weights)
    pos,        \* number of items the source iterator has yielded
    dst,        \* the destination slice
    dst0,       \* the destination slice as it was when the call started
    origin,     \* per slot: source position whose item it holds, -1 if unwritten
    n,          \* local n (slots filled); slot cursor of replacement sampling
    i,          \* local i
    w_sum,      \* local w_sum
    ret,        \* returned value
    draws,      \* number of rng calls made by the running call
    rng,        \* the generator handed to the sampler
    dist,       \* reservoir_sampling: number of draw sequences per reservoir
    windex,     \* replacement sampling: the WeightedIndex built from src
    points,     \* from_sample argument: the columns of the point set
    labels,     \* from_sample argument: optional labels
    max_points, \* from_sample argument
    stream42,   \* outputs of SmallRng::seed_from_u64(42), in order
    results,    \* outcomes of the from_sample calls made so far
    elsewhere   \* draws made from other generators outside from_sample

callVars == <<caller, fn, pc, err, src, pos, dst, dst0, origin, n, i, w_sum,
              ret, draws, rng, dist, windex>>
evalVars == <<points, labels, max_points, stream42, results, elsewhere>>
\* MonitoringCallback and what surrounds it
VARIABLES
    metrics,        \* self.metrics: the registered metrics, by kind
    callbacks,      \* self.callbacks: the registered children
    measures,       \* self.measures: metric name -> value
    step_started,   \* self.step_started
    verbose,        \* self.verbose
    now,            \* the clock Instant::now() reads
    last,           \* the latest hook call made on the callback
    proto,          \* how far the latest calls follow before(i), during(i), after(i)
    flip,           \* changes with every hook call made on the callback
    events,         \* what the latest hook call did, in order
    written,        \* names written by the metrics in the latest during_step
    out_count,      \* number of lines printed
    printed,        \* the line the latest hook call printed, NoLine if none
    verbose_afters, \* number of after_step calls made while verbose was true
    ever_verbose,   \* set_verbose(true) has been called
    calls,          \* record of the recording driver: hook calls it has made
    trace           \* record shared by the recording children, in call order

monVars == <<metrics, callbacks, measures, step_started, verbose, now, last,
             proto, flip, events, written, out_count, printed,
             verbose_afters, ever_verbose, calls, trace>>

vars == <<callVars, evalVars, monVars>>

\* ------------------------------------------------------------------- rng
\* rand::thread_rng(): seeded from OS entropy, any value of the range
ThreadRng == [kind |-> "thread", pos |-> 0]

\* variant: the generator is seeded from entropy
SmallRngFromEntropy == [kind |-> "thread", pos |-> 0]

\* SmallRng::seed_from_u64(42): a fixed output stream, read from its start
SmallRngSeeded == [kind |-> "small", pos |-> 0]

\* the half-open range lo..hi of gen_range
DrawRange(lo, hi) == lo..(hi - 1)

\* rng.gen_range(lo..hi) for lo < hi: the possible <<value, generator after>>
GenRange(r, lo, hi) ==
    IF r.kind = "thread"
    THEN {<<j, r>> : j \in DrawRange(lo, hi)}
    ELSE {<<lo + (stream42[r.pos + 1] % (hi - lo)), [r EXCEPT !.pos = @ + 1]>>}

\* the raw outputs a seeded generator can have: enough to reach every value
\* of every range from_sample draws from
StreamLen == MaxCols - 1
Streams == [1..StreamLen -> 0..(MaxCols - 2)]

\* ---------------------------------------------------------------- Init
NoIndex == [ok |-> FALSE, err |-> "none", cumulative_weights |-> <<>>,
            total_weight |-> 0]

IdleCall ==
    /\ caller = "none" /\ fn = "none" /\ pc = "idle" /\ err = "none"
    /\ src = <<>> /\ pos = 0 /\ dst = <<>> /\ dst0 = <<>> /\ origin = <<>>
    /\ n = 0 /\ i = 0 /\ w_sum = 0 /\ ret = 0 /\ draws = 0
    /\ rng = ThreadRng /\ dist = <<>> /\ windex = NoIndex

\* the measurement table with no entry
EmptyTable == [x \in {} |-> 0]

NoCall == [hook |-> "none", i |-> 0, k |-> 0]

NoLine == [i |-> 0, elapsed |-> 0, measures |-> EmptyTable]

\* MonitoringCallback::from_data(data), nothing called on it yet
from_data ==
    /\ metrics = <<>> /\ callbacks = <<>> /\ measures = EmptyTable
    /\ step_started = 0 /\ verbose = FALSE /\ now = 0
    /\ last = NoCall /\ proto = 0 /\ flip = FALSE /\ events = <<>>
    /\ written = {} /\ out_count = 0 /\ printed = NoLine
    /\ verbose_afters = 0 /\ ever_verbose = FALSE
    /\ calls = <<>> /\ trace = <<>>

\* the samplers called directly: no evaluation data is involved
Init ==
    /\ IdleCall
    /\ from_data
    /\ points = <<>> /\ labels = [some |-> FALSE, val |-> <<>>]
    /\ max_points = 0
    /\ stream42 = [p \in 1..StreamLen |-> 0]
    /\ results = <<>> /\ elsewhere = 0

\* ---------------------------------------------------- reservoir_sampling
\* variant: the destination is zeroed on entry
EnterCleared(f, c, r, s, d) ==
    /\ caller' = c /\ fn' = f /\ pc' = "fill" /\ err' = "none"
    /\ src' = s /\ pos' = 0 /\ dst' = Zeros(Len(d)) /\ dst0' = d
    /\ origin' = NoOrigin(Len(d))
    /\ n' = 0 /\ i' = 0 /\ w_sum' = 0 /\ ret' = 0 /\ draws' = 0
    /\ rng' = r /\ dist' = (NoOrigin(Len(d)) :> 1) /\ windex' = NoIndex

\* entry of a sampler: the locals before its first loop
Enter(f, c, r, s, d) ==
    /\ caller' = c /\ fn' = f /\ pc' = "fill" /\ err' = "none"
    /\ src' = s /\ pos' = 0 /\ dst' = d /\ dst0' = d
    /\ origin' = NoOrigin(Len(d))
    /\ n' = 0 /\ i' = 0 /\ w_sum' = 0 /\ ret' = 0 /\ draws' = 0
    /\ rng' = r /\ dist' = (NoOrigin(Len(d)) :> 1) /\ windex' = NoIndex

reservoir_sampling_call ==
    /\ pc = "idle"
    /\ \E s \in SeqsUpTo(1..MaxItem, MaxLen), k \in 0..MaxK :
         \E d \in DstInits(k) :
            Enter("reservoir_sampling", "none", ThreadRng, s, d)
    /\ UNCHANGED <<evalVars, monVars>>

\* dst[j] = v when j < dst.len()   (slots are 1-based in the model)
ReservoirStore(d, j, v) == IF j < Len(d) THEN [d EXCEPT ![j + 1] = v] ELSE d

\* the range the replacement index j of the item at position i_ is drawn from
ReservoirDrawHi(i_) == i_

\* variant: the number of items seen is returned
ReservoirReturnSeen(n_, i_) == i_

\* the value returned
ReservoirReturn(n_, i_) == n_

RECURSIVE SumOver(_, _)
SumOver(S, d) ==
    IF S = {} THEN 0
    ELSE LET x == CHOOSE y \in S : TRUE
         IN d[x[1]] + SumOver(S \ {x}, d)

\* the distribution after one more item: every reservoir of d continued by
\* every equally likely draw j
PushDist(d, p, hi) ==
    LET pairs == (DOMAIN d) \X DrawRange(0, hi)
        next(x) == ReservoirStore(x[1], x[2], p)
    IN [o \in {next(x) : x \in pairs} |->
            SumOver({x \in pairs : next(x) = o}, d)]

\* for (dst_val, src_val) in dst.iter_mut().zip(src.by_ref()): one iteration.
\* zip asks dst first, so an exhausted dst consumes no source item.
reservoir_sampling_fill ==
    /\ fn = "reservoir_sampling" /\ pc = "fill"
    /\ IF n < Len(dst) /\ pos < Len(src)
       THEN /\ dst' = [dst EXCEPT ![n + 1] = src[pos + 1]]
            /\ origin' = [origin EXCEPT ![n + 1] = pos]
            /\ dist' = ([origin EXCEPT ![n + 1] = pos] :> 1)
            /\ n' = n + 1
            /\ pos' = pos + 1
            /\ UNCHANGED <<pc, i>>
       ELSE /\ pc' = "loop"
            /\ i' = n
            /\ UNCHANGED <<dst, origin, dist, n, pos>>
    /\ UNCHANGED <<caller, fn, err, src, dst0, w_sum, ret, draws, rng, windex>>
    /\ UNCHANGED <<evalVars, monVars>>

\* for v in src { let j = rng.gen_range(0..i); ... i += 1 }: one iteration,
\* or the return when the source is exhausted
reservoir_sampling_loop ==
    /\ fn = "reservoir_sampling" /\ pc = "loop"
    /\ \/ /\ pos >= Len(src)
          /\ pc' = "done"
          /\ ret' = ReservoirReturn(n, i)
          /\ UNCHANGED <<err, pos, dst, origin, i, draws, rng, dist>>
       \/ /\ pos < Len(src)
          /\ ReservoirDrawHi(i) <= 0          \* gen_range panics: empty range
          /\ pc' = "panic"
          /\ err' = "empty_range"
          /\ pos' = pos + 1
          /\ draws' = draws + 1
          /\ UNCHANGED <<dst, origin, i, ret, rng, dist>>
       \/ /\ pos < Len(src)
          /\ ReservoirDrawHi(i) > 0
          /\ \E g \in GenRange(rng, 0, ReservoirDrawHi(i)) :
                /\ dst' = ReservoirStore(dst, g[1], src[pos + 1])
                /\ origin' = ReservoirStore(origin, g[1], pos)
                /\ rng' = g[2]
          /\ dist' = PushDist(dist, pos, ReservoirDrawHi(i))
          /\ i' = i + 1
          /\ pos' = pos + 1
          /\ draws' = draws + 1
          /\ UNCHANGED <<pc, err, ret>>
    /\ UNCHANGED <<caller, fn, src, dst0, n, w_sum, windex>>
    /\ UNCHANGED <<evalVars, monVars>>

\* ------------------------------------------- reservoir_sampling_weighted
reservoir_sampling_weighted_call ==
    /\ pc = "idle"
    /\ \E s \in SeqsUpTo(0..MaxW, MaxLen), k \in 0..MaxK :
         \E d \in DstInits(k) :
            Enter("reservoir_sampling_weighted", "none", ThreadRng, s, d)
    /\ UNCHANGED <<evalVars, monVars>>

\* variant: the index is not advanced
WeightedNextISame(i_) == i_

\* i += 1 at the end of an iteration
WeightedNextI(i_) == i_ + 1

\* variant: the index is stored one-based
WeightedFillStoreOneBased(d, p, i_) == [d EXCEPT ![p] = i_ + 1]

\* *dst_v = i in the first loop
WeightedFillStore(d, p, i_) == [d EXCEPT ![p] = i_]

\* variant: an item is also selected by a draw equal to its weight
WeightedSelectedInclusive(j, w) == j <= w

\* if j < w: the item of weight w is selected by the draw j
WeightedSelected(j, w) == j < w

\* for dst_v in dst.iter_mut() { if let Some(w) = src.next() {..} else break }
reservoir_sampling_weighted_fill ==
    /\ fn = "reservoir_sampling_weighted" /\ pc = "fill"
    /\ IF n < Len(dst) /\ pos < Len(src)
       THEN /\ dst' = WeightedFillStore(dst, n + 1, i)
            /\ origin' = WeightedFillStore(origin, n + 1, pos)
            /\ w_sum' = w_sum + src[pos + 1]
            /\ n' = n + 1
            /\ i' = WeightedNextI(i)
            /\ pos' = pos + 1
            /\ UNCHANGED pc
       ELSE /\ pc' = "loop"
            /\ UNCHANGED <<dst, origin, w_sum, n, i, pos>>
    /\ UNCHANGED <<caller, fn, err, src, dst0, ret, draws, rng, dist, windex>>
    /\ UNCHANGED <<evalVars, monVars>>

\* for w in src { w_sum += w; let j = rng.gen_range(0..w_sum);
\*                if j < w { dst[rng.gen_range(0..dst.len())] = i; } i += 1 }
reservoir_sampling_weighted_loop ==
    /\ fn = "reservoir_sampling_weighted" /\ pc = "loop"
    /\ \/ /\ pos >= Len(src)
          /\ pc' = "done"
          /\ ret' = n
          /\ UNCHANGED <<err, pos, dst, origin, i, w_sum, draws, rng>>
       \/ /\ pos < Len(src)
          /\ LET w == src[pos + 1]
                 s == w_sum + w
             IN /\ w_sum' = s
                /\ pos' = pos + 1
                /\ \/ /\ s <= 0               \* gen_range panics: empty range
                      /\ pc' = "panic"
                      /\ err' = "empty_range"
                      /\ draws' = draws + 1
                      /\ UNCHANGED <<dst, origin, i, ret, rng>>
                   \/ /\ s > 0
                      /\ \E g \in GenRange(rng, 0, s) :
                           \/ /\ ~WeightedSelected(g[1], w)   \* not selected
                              /\ rng' = g[2]
                              /\ i' = WeightedNextI(i)
                              /\ draws' = draws + 1
                              /\ UNCHANGED <<pc, err, dst, origin, ret>>
                           \/ /\ WeightedSelected(g[1], w)
                              /\ Len(dst) = 0 \* gen_range(0..0) panics
                              /\ pc' = "panic"
                              /\ err' = "empty_range"
                              /\ rng' = g[2]
                              /\ draws' = draws + 2
                              /\ UNCHANGED <<dst, origin, i, ret>>
                           \/ /\ WeightedSelected(g[1], w)
                              /\ Len(dst) > 0
                              /\ \E h \in GenRange(g[2], 0, Len(dst)) :
                                   /\ dst' = [dst EXCEPT ![h[1] + 1] = i]
                                   /\ origin' = [origin EXCEPT ![h[1] + 1] = pos]
                                   /\ rng' = h[2]
                              /\ i' = WeightedNextI(i)
                              /\ draws' = draws + 2
                              /\ UNCHANGED <<pc, err, ret>>
    /\ UNCHANGED <<caller, fn, src, dst0, n, dist, windex>>
    /\ UNCHANGED <<evalVars, monVars>>

\* ----------------------------------------- replacement_sampling_weighted
\* rand's WeightedIndex, as the call sites use it: new() takes the first
\* weight as the running total, rejects a weight w with !(w >= 0), pushes the
\* running total before each further weight, and rejects a total of zero;
\* sample() draws chosen_weight from [0, total) and returns the partition
\* point of the pushed totals.
\* running totals before each weight but the first: WeightedIndex's
\* cumulative_weights
RECURSIVE Cumulative(_, _)
Cumulative(ws, acc) ==
    IF Len(ws) <= 1 THEN <<>>
    ELSE <<acc + ws[1]>> \o Cumulative(Tail(ws), acc + ws[1])

\* variant: weights are not validated
InvalidWeightNone(w) == FALSE

\* a weight that WeightedIndex::new rejects: !(w >= 0)
InvalidWeight(w) == ~(w >= 0)

\* WeightedIndex::new(src)
WeightedIndexNew(ws) ==
    IF Len(ws) = 0
    THEN [NoIndex EXCEPT !.err = "NoItem"]
    ELSE IF \E p \in DOMAIN ws : InvalidWeight(ws[p])
    THEN [NoIndex EXCEPT !.err = "InvalidWeight"]
    ELSE IF SeqSum(ws) = 0
    THEN [NoIndex EXCEPT !.err = "AllWeightsZero"]
    ELSE [ok |-> TRUE, err |-> "none",
          cumulative_weights |-> Cumulative(ws, 0),
          total_weight |-> SeqSum(ws)]

\* variant: the partition point is taken one too far
WeightedIndexSampleOneBased(wi, chosen_weight) ==
    1 + Cardinality({p \in DOMAIN wi.cumulative_weights :
                        wi.cumulative_weights[p] <= chosen_weight})

\* WeightedIndex::sample for the drawn chosen_weight: the partition point of
\* cumulative_weights under w <= chosen_weight
WeightedIndexSample(wi, chosen_weight) ==
    Cardinality({p \in DOMAIN wi.cumulative_weights :
                    wi.cumulative_weights[p] <= chosen_weight})

\* let dist = WeightedIndex::new(src).unwrap();
replacement_sampling_weighted_call ==
    /\ pc = "idle"
    /\ \E s \in SeqsUpTo(-1..MaxW, MaxLen), k \in 0..MaxK :
         \E d \in DstInits(k) :
            LET wi == WeightedIndexNew(s)
            IN /\ caller' = "none" /\ fn' = "replacement_sampling_weighted"
               /\ src' = s /\ pos' = Len(s) /\ dst' = d /\ dst0' = d
               /\ origin' = NoOrigin(Len(d))
               /\ n' = 0 /\ i' = 0 /\ w_sum' = 0 /\ ret' = 0 /\ draws' = 0
               /\ rng' = ThreadRng /\ dist' = <<>>
               /\ windex' = wi
               /\ pc' = IF wi.ok THEN "loop" ELSE "panic"
               /\ err' = IF wi.ok THEN "none" ELSE wi.err
    /\ UNCHANGED <<evalVars, monVars>>

\* for (dst_v, v) in dst.iter_mut().zip(dist.sample_iter(rng)) { *dst_v = v }
replacement_sampling_weighted_loop ==
    /\ fn = "replacement_sampling_weighted" /\ pc = "loop"
    /\ IF n < Len(dst)
       THEN /\ \E g \in GenRange(rng, 0, windex.total_weight) :
                 /\ dst' = [dst EXCEPT ![n + 1] = WeightedIndexSample(windex, g[1])]
                 /\ origin' = [origin EXCEPT ![n + 1] = WeightedIndexSample(windex, g[1])]
                 /\ rng' = g[2]
            /\ n' = n + 1
            /\ draws' = draws + 1
            /\ UNCHANGED pc
       ELSE /\ pc' = "done"
            /\ UNCHANGED <<dst, origin, n, draws, rng>>
    /\ UNCHANGED <<caller, fn, err, src, pos, dst0, i, w_sum, ret, dist, windex>>
    /\ UNCHANGED <<evalVars, monVars>>

\* ------------------------------------------------- EvalData::from_sample
\* the point sets tried: n columns, all different or with repeated columns
PointSets ==
    UNION {{[c \in 1..m |-> 10 * c], [c \in 1..m |-> 10 * (1 + (c % 2))]} :
              m \in 0..MaxCols}

\* the labels tried for a point set of m columns: none, or one per column
LabelSets(m) ==
    {[some |-> FALSE, val |-> <<>>], [some |-> TRUE, val |-> [c \in 1..m |-> c % 3]]}

\* matrix.select_columns(indices): the columns at the 0-based indices
SelectColumns(m, indices) == [c \in 1..Len(indices) |-> m[indices[c] + 1]]

\* variant: the slice ends one index early
IndexSliceShort(indices, n_points) == SubSeq(indices, 1, n_points - 1)

\* &indices[..n_points]
IndexSlice(indices, n_points) == SubSeq(indices, 1, n_points)

\* the data whose selection is compared across calls
InitEval ==
    /\ IdleCall
    /\ from_data
    /\ points \in PointSets
    /\ labels \in LabelSets(Len(points))
    /\ max_points \in 0..MaxPoints
    /\ stream42 \in Streams
    /\ results = <<>> /\ elsewhere = 0

\* let mut rng = SmallRng::seed_from_u64(42);
\* let mut indices = vec![0; max_points];
\* reservoir_sampling(&mut rng, 0..points.ncols(), &mut indices)
from_sample_call ==
    /\ pc = "idle"
    /\ Len(results) < MaxCalls
    /\ Enter("reservoir_sampling", "from_sample", SmallRngSeeded,
             [c \in 1..Len(points) |-> c - 1], Zeros(max_points))
    /\ UNCHANGED <<evalVars, monVars>>

\* the EvalData built from the sampler's result; a panic of the sampler
\* unwinds through from_sample
from_sample_return ==
    /\ caller = "from_sample"
    /\ pc \in {"done", "panic"}
    /\ LET n_points == ret
           indices == IndexSlice(dst, n_points)
           data == IF pc = "panic"
                   THEN [panicked |-> TRUE, indices |-> <<>>, points |-> <<>>,
                         labels |-> [some |-> FALSE, val |-> <<>>]]
                   ELSE [panicked |-> FALSE,
                         indices |-> indices,
                         points |-> SelectColumns(points, indices),
                         labels |-> IF labels.some
                                    THEN [some |-> TRUE,
                                          val |-> SelectColumns(labels.val, indices)]
                                    ELSE labels]
       IN results' = Append(results, data)
    /\ caller' = "none" /\ fn' = "none" /\ pc' = "idle" /\ err' = "none"
    /\ src' = <<>> /\ pos' = 0 /\ dst' = <<>> /\ dst0' = <<>> /\ origin' = <<>>
    /\ n' = 0 /\ i' = 0 /\ w_sum' = 0 /\ ret' = 0 /\ draws' = 0
    /\ rng' = ThreadRng /\ dist' = <<>> /\ windex' = NoIndex
    /\ UNCHANGED <<points, labels, max_points, stream42, elsewhere>>
    /\ UNCHANGED monVars

\* a draw from another generator somewhere else in the process
draw_elsewhere ==
    /\ pc = "idle"
    /\ elsewhere < MaxElsewhere
    /\ elsewhere' = elsewhere + 1
    /\ UNCHANGED <<points, labels, max_points, stream42, results>>
    /\ UNCHANGED <<callVars, monVars>>

\* ---------------------------------------------------- MonitoringCallback
\* Metric implementations: each inserts zero or more named entries.
\*   "overwriting"  writes loss = 1 and k = 0 at every iteration (k is the
\*                  name the callback itself uses for the cluster count,
\*                  which is >= 1)
\*   "first_only"   writes loss = 2 at iteration 0 and nothing afterwards
MetricKinds == {"overwriting", "first_only"}

\* the entries metric.compute(i, data, params, measures) inserts
MetricWrites(kind, i_) ==
    IF kind = "overwriting" THEN [x \in {"loss", "k"} |-> IF x = "k" THEN 0 ELSE 1]
    ELSE IF i_ = 0 THEN [x \in {"loss"} |-> 2]
    ELSE EmptyTable

\* HashMap::insert of every entry of w into m
InsertAll(m, w) ==
    [x \in (DOMAIN m) \cup (DOMAIN w) |-> IF x \in DOMAIN w THEN w[x] ELSE m[x]]

\* variant: the table is not cleared
ClearMeasuresKept(m) == m

\* self.measures.clear()
ClearMeasures(m) == EmptyTable

\* self.measures.insert("k", params.n_clusters())
InsertClusterCount(m, kc) == InsertAll(m, [x \in {"k"} |-> kc])

\* variant: the metrics are run last-registered first
RECURSIVE RunMetricsReversed(_, _, _)
RunMetricsReversed(ms, i_, m) ==
    IF Len(ms) = 0 THEN m
    ELSE RunMetricsReversed(SubSeq(ms, 1, Len(ms) - 1), i_,
                            InsertAll(m, MetricWrites(ms[Len(ms)], i_)))

\* for metric in &mut self.metrics { metric.compute(i, .., &mut self.measures) }
RECURSIVE RunMetrics(_, _, _)
RunMetrics(ms, i_, m) ==
    IF Len(ms) = 0 THEN m
    ELSE RunMetrics(Tail(ms), i_, InsertAll(m, MetricWrites(ms[1], i_)))

\* variant: the children are visited last-registered first
ChildOrderReversed(nc) == [p \in 1..nc |-> nc + 1 - p]

\* for callback in &mut self.callbacks: the children in the order visited
ChildOrder(nc) == [p \in 1..nc |-> p]

\* the child hook calls one hook call of the parent makes, in order
Forwarded(hook, i_) ==
    LET ord == ChildOrder(Len(callbacks))
    IN [p \in 1..Len(callbacks) |-> [child |-> ord[p], hook |-> hook, i |-> i_]]

\* what the children do with the calls: a "recorder" child appends the call
\* to the shared record, a "timed" child takes one tick of the clock
Recorded(fwd) ==
    LET rec(e) == callbacks[e.child].kind = "recorder" IN SelectSeq(fwd, rec)

ChildTime(fwd) ==
    Cardinality({p \in DOMAIN fwd : callbacks[fwd[p].child].kind = "timed"})

ChildEvents(fwd) == [p \in DOMAIN fwd |-> [ev |-> "child", idx |-> fwd[p].child]]

MetricEvents == [p \in DOMAIN metrics |-> [ev |-> "metric", idx |-> p]]

Ev(name) == [ev |-> name, idx |-> 0]

\* variant: the timestamp is taken before the children run
StepStartEarly(before, after) == before

\* self.step_started = Instant::now(), as the last statement of before_step
StepStart(before, after) == after

\* variant: the line is printed whatever the flag
EmitsAlways(v) == TRUE

\* if self.verbose
Emits(v) == v

\* variant: the line names the next iteration
LineNextIteration(i_, elapsed, m) == [i |-> i_ + 1, elapsed |-> elapsed, measures |-> m]

\* println!("Run iteration {} in {:.2?}; {}", i, elapsed, measures)
Line(i_, elapsed, m) == [i |-> i_, elapsed |-> elapsed, measures |-> m]

\* fn before_step(&mut self, i)
BeforeStep(i_) ==
    LET fwd == Forwarded("before", i_)
        after == now + ChildTime(fwd)
    IN /\ after <= MaxTime
       /\ measures' = ClearMeasures(measures)
       /\ trace' = trace \o Recorded(fwd)
       /\ now' = after
       /\ step_started' = StepStart(now, after)
       /\ events' = <<Ev("clear")>> \o ChildEvents(fwd) \o <<Ev("stamp")>>
       /\ last' = [hook |-> "before", i |-> i_, k |-> 0]
       /\ proto' = 1
       /\ flip' = ~flip
       /\ printed' = NoLine
       /\ UNCHANGED <<metrics, callbacks, verbose, written, out_count,
                      verbose_afters, ever_verbose>>

\* fn during_step(&mut self, i, params), params.n_clusters() = kc
DuringStep(i_, kc) ==
    LET fwd == Forwarded("during", i_)
        after == now + ChildTime(fwd)
    IN /\ after <= MaxTime
       /\ measures' = RunMetrics(metrics, i_, InsertClusterCount(measures, kc))
       /\ written' = UNION {DOMAIN MetricWrites(metrics[p], i_) : p \in DOMAIN metrics}
       /\ trace' = trace \o Recorded(fwd)
       /\ now' = after
       /\ events' = <<Ev("k")>> \o MetricEvents \o ChildEvents(fwd)
       /\ last' = [hook |-> "during", i |-> i_, k |-> kc]
       /\ proto' = IF proto = 1 /\ last.i = i_ THEN 2 ELSE 0
       /\ flip' = ~flip
       /\ printed' = NoLine
       /\ UNCHANGED <<metrics, callbacks, step_started, verbose, out_count,
                      verbose_afters, ever_verbose>>

\* fn after_step(&mut self, i)
AfterStep(i_) ==
    LET fwd == Forwarded("after", i_)
        after == now + ChildTime(fwd)
    IN /\ after <= MaxTime
       /\ Emits(verbose) => out_count < MaxLines
       /\ trace' = trace \o Recorded(fwd)
       /\ now' = after
       /\ IF Emits(verbose)
          THEN /\ printed' = Line(i_, after - step_started, measures)
               /\ out_count' = out_count + 1
               /\ events' = ChildEvents(fwd) \o <<Ev("elapsed"), Ev("print")>>
          ELSE /\ events' = ChildEvents(fwd)
               /\ printed' = NoLine
               /\ UNCHANGED out_count
       /\ verbose_afters' = IF verbose THEN verbose_afters + 1 ELSE verbose_afters
       /\ last' = [hook |-> "after", i |-> i_, k |-> 0]
       /\ proto' = IF proto = 2 /\ last.i = i_ THEN 3 ELSE 0
       /\ flip' = ~flip
       /\ UNCHANGED <<metrics, callbacks, measures, step_started, verbose,
                      written, ever_verbose>>

\* pub fn add_metric(&mut self, metric)
AddMetric(kind) ==
    /\ Len(metrics) < MaxMetrics
    /\ metrics' = Append(metrics, kind)
    /\ UNCHANGED <<callbacks, measures, step_started, verbose, now, last, proto,
                   flip, events, written, out_count, printed,
                   verbose_afters, ever_verbose, calls, trace>>

\* pub fn add_callback(&mut self, callback)
AddCallback(child) ==
    /\ Len(callbacks) < MaxChildren
    /\ callbacks' = Append(callbacks, child)
    /\ UNCHANGED <<metrics, measures, step_started, verbose, now, last, proto,
                   flip, events, written, out_count, printed,
                   verbose_afters, ever_verbose, calls, trace>>

\* the hooks called by any caller, in any order, with any arguments
before_step ==
    /\ \E i_ \in 0..MaxIter : BeforeStep(i_)
    /\ UNCHANGED <<calls, callVars, evalVars>>

during_step ==
    /\ \E i_ \in 0..MaxIter, kc \in 1..MaxClusters : DuringStep(i_, kc)
    /\ UNCHANGED <<calls, callVars, evalVars>>

after_step ==
    /\ \E i_ \in 0..MaxIter : AfterStep(i_)
    /\ UNCHANGED <<calls, callVars, evalVars>>

add_metric ==
    /\ \E kind \in MetricKinds : AddMetric(kind)
    /\ UNCHANGED <<callVars, evalVars>>

\* a child with the default hooks of the Callback trait, which do nothing
add_callback ==
    /\ Len(callbacks) < MaxChildren - 1
    /\ AddCallback([kind |-> "plain", since |-> 0])
    /\ UNCHANGED <<callVars, evalVars>>

\* a child whose hooks take time
add_timed ==
    /\ AddCallback([kind |-> "timed", since |-> 0])
    /\ UNCHANGED <<callVars, evalVars>>

\* pub fn set_verbose(&mut self, verbose)
set_verbose ==
    /\ \E v \in BOOLEAN :
         /\ verbose' = v
         /\ ever_verbose' = (ever_verbose \/ v)
    /\ UNCHANGED <<metrics, callbacks, measures, step_started, now, last, proto,
                   flip, events, written, out_count, printed,
                   verbose_afters, calls, trace>>
    /\ UNCHANGED <<callVars, evalVars>>

\* the fitting loop works between two hook calls: time passes
fit_work ==
    /\ now < MaxTime
    /\ now' = now + 1
    /\ UNCHANGED <<metrics, callbacks, measures, step_started, verbose, last,
                   proto, flip, events, written, out_count, printed,
                   verbose_afters, ever_verbose, calls, trace>>
    /\ UNCHANGED <<callVars, evalVars>>

\* a driver that records every hook call it makes, with children that record
\* every hook call they receive and know how many calls were made before
\* they were registered
add_recorder ==
    /\ AddCallback([kind |-> "recorder", since |-> Len(calls)])
    /\ UNCHANGED <<callVars, evalVars>>

recorded_before_step ==
    /\ Len(calls) < MaxLog
    /\ \E i_ \in 0..MaxIter :
         /\ BeforeStep(i_)
         /\ calls' = Append(calls, [hook |-> "before", i |-> i_])
    /\ UNCHANGED <<callVars, evalVars>>

recorded_during_step ==
    /\ Len(calls) < MaxLog
    /\ \E i_ \in 0..MaxIter :
         /\ DuringStep(i_, 1)
         /\ calls' = Append(calls, [hook |-> "during", i |-> i_])
    /\ UNCHANGED <<callVars, evalVars>>

recorded_after_step ==
    /\ Len(calls) < MaxLog
    /\ \E i_ \in 0..MaxIter :
         /\ AfterStep(i_)
         /\ calls' = Append(calls, [hook |-> "after", i |-> i_])
    /\ UNCHANGED <<callVars, evalVars>>

\* -------------------------------------------------------- specifications
Next ==
    \/ reservoir_sampling_call
    \/ reservoir_sampling_fill
    \/ reservoir_sampling_loop
    \/ reservoir_sampling_weighted_call
    \/ reservoir_sampling_weighted_fill
    \/ reservoir_sampling_weighted_loop
    \/ replacement_sampling_weighted_call
    \/ replacement_sampling_weighted_loop

Spec == Init /\ [][Next]_vars

NextEval ==
    \/ from_sample_call
    \/ reservoir_sampling_fill
    \/ reservoir_sampling_loop
    \/ from_sample_return
    \/ draw_elsewhere

SpecEval == InitEval /\ [][NextEval]_vars

NextMon ==
    \/ before_step
    \/ during_step
    \/ after_step
    \/ add_metric
    \/ add_callback
    \/ set_verbose

SpecMon == Init /\ [][NextMon]_vars

NextTime ==
    \/ before_step
    \/ during_step
    \/ after_step
    \/ add_timed
    \/ set_verbose
    \/ fit_work

SpecTime == Init /\ [][NextTime]_vars

NextFwd ==
    \/ add_recorder
    \/ recorded_before_step
    \/ recorded_during_step
    \/ recorded_after_step

SpecFwd == Init /\ [][NextFwd]_vars

\* ------------------------------------------------------------ properties
Samplers == {"reservoir_sampling", "reservoir_sampling_weighted"}

Min(a, b) == IF a <= b THEN a ELSE b

Range(s) == {s[p] : p \in DOMAIN s}

PairwiseDistinct(s) == \A p, q \in DOMAIN s : p # q => s[p] # s[q]

\* C1: with a destination of k >= 1 slots (and, for the weighted sampler,
\* strictly positive weights) both reservoir samplers return, and the value
\* returned is min(k, n) for a source of n items.
ReturnsMinOfLengths ==
    (/\ fn \in Samplers
     /\ Len(dst) >= 1
     /\ fn = "reservoir_sampling_weighted" => \A p \in DOMAIN src : src[p] > 0)
    => /\ pc # "panic"
       /\ pc = "done" => ret = Min(Len(dst), Len(src))

ReturnsMinOfLengthsWitness ==
    /\ fn = "reservoir_sampling_weighted" /\ pc = "done"
    /\ \A p \in DOMAIN src : src[p] > 0
    /\ Len(dst) >= 1 /\ Len(src) > Len(dst)
    /\ draws > 0
    /\ ret = Len(dst)

\* C2: a source no longer than the destination is copied without any random
\* draw: slot p holds the p-th source item (reservoir_sampling) or the index
\* p (reservoir_sampling_weighted), for every p below the source length.
ShortSourceCopiedInOrder ==
    (fn \in Samplers /\ Len(src) <= Len(dst))
    => /\ pc # "panic"
       /\ draws = 0
       /\ pc = "done" =>
             \A p \in 1..Len(src) :
                dst[p] = IF fn = "reservoir_sampling" THEN src[p] ELSE p - 1

ShortSourceCopiedInOrderWitness ==
    /\ fn = "reservoir_sampling_weighted" /\ pc = "done"
    /\ Len(src) >= 2 /\ Len(src) <= Len(dst)
    /\ dst0 = Stale(Len(dst))
    /\ ret = Len(src)

\* C3: sampling is without replacement: once the k >= 1 slots are filled,
\* in every later state of the call the slots hold items of k pairwise
\* distinct source positions, all among the items consumed so far; the
\* weighted sampler's slots hold exactly those positions as indices.
WithoutReplacement ==
    (fn \in Samplers /\ Len(dst) >= 1 /\ n = Len(dst))
    => /\ PairwiseDistinct(origin)
       /\ \A p \in DOMAIN dst :
             /\ origin[p] \in 0..(pos - 1)
             /\ dst[p] = IF fn = "reservoir_sampling"
                         THEN src[origin[p] + 1] ELSE origin[p]

WithoutReplacementWitness ==
    /\ fn = "reservoir_sampling_weighted" /\ pc = "done"
    /\ Len(dst) >= 2 /\ Len(src) > Len(dst)
    /\ \E p \in DOMAIN dst : dst[p] >= Len(dst)

\* number of draw sequences after which source position p is in the reservoir
PresentCount(p) == SumOver({<<o>> : o \in {x \in DOMAIN dist : p \in Range(x)}}, dist)

\* number of draw sequences
TotalCount == SumOver({<<o>> : o \in DOMAIN dist}, dist)

\* C4: reservoir_sampling is uniform: with k >= 1 slots and a source of
\* m >= k items (told apart by their positions), every item is in the final
\* reservoir in exactly the fraction k/m of the equally likely draw sequences.
UniformInclusion ==
    (/\ fn = "reservoir_sampling" /\ pc = "done"
     /\ Len(dst) >= 1 /\ Len(src) >= Len(dst))
    => \A p \in 0..(Len(src) - 1) :
          PresentCount(p) * Len(src) = Len(dst) * TotalCount

\* C5: with an empty destination both reservoir samplers return 0 for every
\* source and never fail.
EmptyDestinationReturnsZero ==
    (fn \in Samplers /\ Len(dst) = 0)
    => /\ pc # "panic"
       /\ pc = "done" => ret = 0

\* C6: when the running weight sum is zero for an item beyond the first k,
\* reservoir_sampling_weighted skips the draw, leaves the reservoir as it is
\* and goes on with the next item.
ZeroWeightSumSkipsDraw ==
    [][(/\ fn = "reservoir_sampling_weighted" /\ pc = "loop"
        /\ Len(dst) >= 1
        /\ pos < Len(src)
        /\ w_sum + src[pos + 1] = 0)
       => (pc' = "loop" /\ dst' = dst /\ draws' = draws)]_vars

\* C7: replacement_sampling_weighted fails for every weight stream that is
\* empty, sums to zero or holds a negative weight, and the destination then
\* still holds what it held before the call.
BadWeights(ws) ==
    \/ Len(ws) = 0
    \/ SeqSum(ws) = 0
    \/ \E p \in DOMAIN ws : ws[p] < 0

RejectsBadWeightsUntouched ==
    (fn = "replacement_sampling_weighted" /\ BadWeights(src))
    => /\ pc = "panic"
       /\ dst = dst0
       /\ origin = NoOrigin(Len(dst))
       /\ draws = 0

RejectsBadWeightsUntouchedWitness ==
    /\ fn = "replacement_sampling_weighted" /\ pc = "panic"
    /\ err = "InvalidWeight"
    /\ SeqSum(src) > 0
    /\ Len(dst) >= 1 /\ dst = Stale(Len(dst))

\* C8: for non-negative weights of positive sum, replacement_sampling_weighted
\* does not fail and, when it returns, has written each of the m destination
\* slots with one drawn index below the stream length.
ReplacementFillsEverySlot ==
    (fn = "replacement_sampling_weighted" /\ ~BadWeights(src))
    => /\ pc # "panic"
       /\ pc = "done" =>
             /\ draws = Len(dst)
             /\ \A p \in DOMAIN dst :
                   /\ origin[p] # -1
                   /\ dst[p] = origin[p]
                   /\ dst[p] \in 0..(Len(src) - 1)

\* the same index drawn for two slots
ReplacementFillsEverySlotWitness ==
    /\ fn = "replacement_sampling_weighted" /\ pc = "done"
    /\ Len(src) >= 2
    /\ Len(dst) >= 2 /\ dst[1] = dst[2] /\ dst[1] = Len(src) - 1

\* C9: for max_points >= 1 from_sample does not fail and yields exactly
\* min(max_points, n) columns, copies of pairwise distinct columns of the n
\* input columns (labels selected by the same indices); when n <= max_points
\* the result is the whole point set, and the labels, in the original order.
SampleIsBoundedSubset ==
    max_points >= 1 =>
       \A c \in DOMAIN results :
          LET r == results[c]
              m == Min(max_points, Len(points))
          IN /\ ~r.panicked
             /\ Len(r.points) = m
             /\ Len(r.indices) = m
             /\ PairwiseDistinct(r.indices)
             /\ \A q \in 1..m :
                   /\ r.indices[q] \in 0..(Len(points) - 1)
                   /\ r.points[q] = points[r.indices[q] + 1]
                   /\ labels.some => r.labels.val[q] = labels.val[r.indices[q] + 1]
             /\ r.labels.some = labels.some
             /\ Len(r.labels.val) = IF labels.some THEN m ELSE 0
             /\ Len(points) <= max_points =>
                   (r.points = points /\ r.labels = labels)

SampleIsBoundedSubsetWitness ==
    /\ Len(results) >= 1
    /\ max_points >= 2 /\ Len(points) > max_points + 1
    /\ labels.some
    /\ Len(results[1].points) = max_points
    /\ results[1].indices[1] # 0

\* C10: from_sample is deterministic: all calls with the same points, labels
\* and max_points have the same outcome, whatever is drawn elsewhere between
\* them.
SampleIsDeterministic ==
    \A a, b \in DOMAIN results : results[a] = results[b]

SampleIsDeterministicWitness ==
    /\ Len(results) >= 2
    /\ elsewhere >= 1
    /\ ~results[2].panicked
    /\ Len(points) > max_points + 1
    /\ results[2].indices # [c \in 1..max_points |-> c - 1]

\* C15: in reservoir_sampling with k >= 1 the item at position i >= k is
\* drawn for with one of i + 1 equally likely values 0..i, of which only the
\* values below k store it; so after every such item the number of draw
\* sequences has grown by the factor i + 1, and in some of them the item just
\* processed (the one at position k included) is not in the reservoir.
RECURSIVE InclusiveDrawCount(_, _)
InclusiveDrawCount(from, to) ==
    IF from >= to THEN 1 ELSE (from + 1) * InclusiveDrawCount(from + 1, to)

LaterItemCanBeRejected ==
    (/\ fn = "reservoir_sampling" /\ pc \in {"loop", "done"}
     /\ Len(dst) >= 1 /\ pos > Len(dst))
    => /\ TotalCount = InclusiveDrawCount(Len(dst), pos)
       /\ PresentCount(pos - 1) < TotalCount

\* C18: with a source of n < k items both reservoir samplers leave the
\* destination slots n..k-1 as they were before the call.
ShortSourceFrame ==
    (fn \in Samplers /\ Len(src) < Len(dst))
    => \A p \in (Len(src) + 1)..Len(dst) :
          dst[p] = dst0[p] /\ origin[p] = -1

ShortSourceFrameWitness ==
    /\ fn = "reservoir_sampling" /\ pc = "done"
    /\ Len(src) >= 1 /\ Len(src) < Len(dst)
    /\ dst0 = Stale(Len(dst))
    /\ dst[Len(dst)] = Stale(Len(dst))[Len(dst)]
    /\ dst[1] = src[1]

\* slots whose content or origin differs between two reservoirs
ChangedSlots(d, e, o, q) == {p \in DOMAIN d : d[p] # e[p] \/ o[p] # q[p]}

\* C19: in reservoir_sampling_weighted with k >= 1 each of the first k items
\* takes its slot whatever its weight; a later item enters the reservoir only
\* on a selecting draw (a second draw then picks the slot), only if its
\* weight is positive, and it then replaces exactly one slot with its index.
WeightedInsertion ==
    [][(fn = "reservoir_sampling_weighted" /\ Len(dst) >= 1 /\ pos < Len(src))
       => /\ (pc = "fill" /\ n < Len(dst)) =>
                (dst'[n + 1] = pos /\ origin'[n + 1] = pos /\ draws' = draws)
          /\ pc = "loop" =>
                LET changed == ChangedSlots(dst, dst', origin, origin')
                IN /\ Cardinality(changed) <= 1
                   /\ src[pos + 1] = 0 => changed = {}
                   /\ changed # {} <=> (pc' = "loop" /\ draws' = draws + 2)
                   /\ \A p \in changed : dst'[p] = pos /\ origin'[p] = pos]_vars

\* a zero-weight item took a slot among the first k, a later zero-weight item
\* was passed over, and a later item was inserted
WeightedInsertionWitness ==
    /\ fn = "reservoir_sampling_weighted" /\ pc = "done"
    /\ Len(dst) >= 1 /\ Len(src) >= Len(dst) + 2
    /\ src[1] = 0
    /\ \E q \in (Len(dst) + 1)..Len(src) : src[q] = 0
    /\ \E p \in DOMAIN dst : dst[p] >= Len(dst)

\* a hook call has just been made on the callback
HookCalled(hook) == flip' # flip /\ last'.hook = hook

HasEvent(name) == \E p \in DOMAIN events : events[p].ev = name

\* C11: whenever before_step was the latest hook call, whatever the table
\* held before and whichever children are registered, the measurement table
\* is empty.
BeforeStepLeavesTableEmpty ==
    last.hook = "before" => measures = EmptyTable

BeforeStepLeavesTableEmptyWitness ==
    /\ last.hook = "before" /\ proto = 1
    /\ written # {}
    /\ Len(metrics) >= 1 /\ Len(callbacks) >= 1
    /\ HasEvent("clear")
    /\ measures = EmptyTable

\* the calls the children registered before the q-th call receive for it
CallEvents(q) ==
    LET all == [c \in DOMAIN callbacks |->
                   [child |-> c, hook |-> calls[q].hook, i |-> calls[q].i]]
        registered(e) == callbacks[e.child].since < q
    IN SelectSeq(all, registered)

RECURSIVE ExpectedTrace(_)
ExpectedTrace(q) ==
    IF q > Len(calls) THEN <<>> ELSE CallEvents(q) \o ExpectedTrace(q + 1)

\* C12: the record of the children is the record of the hook calls made on
\* the parent, call by call: each call appears once for every child
\* registered when it was made, with the same hook and iteration index, the
\* children in registration order within a call; so every child has received
\* exactly the parent's sequence of calls since it was registered.
ChildrenReceiveParentCalls == trace = ExpectedTrace(1)

ChildrenReceiveParentCallsWitness ==
    /\ Len(callbacks) >= 2
    /\ \A c \in DOMAIN callbacks : callbacks[c].since = 0
    /\ Len(calls) >= 3
    /\ calls[1] = [hook |-> "before", i |-> 0]
    /\ calls[2] = [hook |-> "during", i |-> 0]
    /\ calls[3] = [hook |-> "after", i |-> 0]
    /\ Len(trace) = Len(calls) * Len(callbacks)
    /\ trace[1].child = 1 /\ trace[2].child = 2

\* C13: when after_step(i) follows before_step(i) and during_step(i) on a
\* verbose callback, it prints one line, which carries i and the table as
\* during_step(i) left it: the entry k and the entries the metrics wrote in
\* during_step(i), and no entry of an earlier iteration.
LineHoldsIterationEntries ==
    [][(HookCalled("after") /\ proto' = 3 /\ verbose)
       => /\ out_count' = out_count + 1
          /\ printed'.i = last'.i
          /\ printed'.measures = measures
          /\ DOMAIN printed'.measures = {"k"} \cup written]_vars

\* the line of iteration 1 without the entry a metric wrote at iteration 0
LineHoldsIterationEntriesWitness ==
    /\ last = [hook |-> "after", i |-> 1, k |-> 0] /\ proto = 3
    /\ HasEvent("print")
    /\ metrics = <<"first_only">>
    /\ printed.i = 1
    /\ DOMAIN printed.measures = {"k"}

\* C14: the number of lines printed is the number of after_step calls made
\* while verbose was true, and is zero as long as set_verbose(true) was never
\* called; a line is printed only by an after_step call made while verbose is
\* true, one per call: before_step, during_step, add_metric, add_callback and
\* set_verbose print nothing.
OnlyVerboseAfterStepPrints ==
    /\ [](out_count = verbose_afters /\ (~ever_verbose => out_count = 0))
    /\ [][out_count' # out_count
          => (HookCalled("after") /\ verbose /\ out_count' = out_count + 1)]_vars
    /\ [][(HookCalled("before") \/ HookCalled("during") \/ flip' = flip)
          => out_count' = out_count]_vars

\* a line was printed earlier, the latest after_step call printed none
OnlyVerboseAfterStepPrintsWitness ==
    /\ last.hook = "after" /\ ~verbose /\ ever_verbose
    /\ out_count >= 1
    /\ ~HasEvent("print")
    /\ Len(metrics) >= 1 /\ Len(callbacks) >= 1

\* the value the last writer of the name x leaves, for a during_step(i_, kc)
\* that inserts k first and then runs the metrics in registration order
LastWritten(x, i_, kc, old) ==
    LET writers == {p \in DOMAIN metrics : x \in DOMAIN MetricWrites(metrics[p], i_)}
        latest == CHOOSE p \in writers : \A q \in writers : q <= p
    IN IF writers # {} THEN MetricWrites(metrics[latest], i_)[x]
       ELSE IF x = "k" THEN kc
       ELSE old[x]

\* C16: during_step(i, params) first inserts k, then runs every registered
\* metric once in registration order, then forwards to the children: each
\* name holds the value of its last writer in that order (a metric writing k
\* replaces the cluster count, a later metric replaces an earlier one's
\* value, untouched names keep their value) and k is present afterwards.
DuringStepOrder ==
    [][HookCalled("during")
       => /\ events' = <<Ev("k")>> \o MetricEvents
                         \o [c \in DOMAIN callbacks |-> [ev |-> "child", idx |-> c]]
          /\ "k" \in DOMAIN measures'
          /\ DOMAIN measures' = (DOMAIN measures) \cup {"k"} \cup written'
          /\ \A x \in DOMAIN measures' :
                measures'[x] = LastWritten(x, last'.i, last'.k, measures)]_vars

DuringStepOrderWitness ==
    /\ last.hook = "during" /\ last.i = 0
    /\ metrics = <<"overwriting", "first_only">>
    /\ Len(callbacks) >= 1
    /\ measures["k"] = 0 /\ measures["loss"] = 2

\* C17: before_step stores as step start the time read after all children
\* have returned; after_step reads the elapsed time and prints after all
\* children have returned; the elapsed time printed is the time from the
\* step start stored by the latest before_step, which nothing else changes.
StepTimingBrackets ==
    [][/\ HookCalled("before")
          => /\ step_started' = now'
             /\ events' = <<Ev("clear")>>
                            \o [c \in DOMAIN callbacks |-> [ev |-> "child", idx |-> c]]
                            \o <<Ev("stamp")>>
       /\ (HookCalled("after") /\ verbose)
          => /\ printed'.elapsed = now' - step_started
             /\ events' = [c \in DOMAIN callbacks |-> [ev |-> "child", idx |-> c]]
                            \o <<Ev("elapsed"), Ev("print")>>
       /\ step_started' # step_started => HookCalled("before")]_vars

\* children took time in before_step, which the elapsed time leaves out
StepTimingBracketsWitness ==
    /\ last.hook = "after" /\ proto = 3
    /\ HasEvent("print")
    /\ Len(callbacks) >= 1
    /\ step_started >= 1
    /\ printed.elapsed = now - step_started
    /\ printed.elapsed >= 1
====
